---- MODULE Spec2Model ----
(***************************************************************************)
(* A model of appstart's sandbox lifecycle:                                *)
(*   - ContainerSandbox (appstart/container_sandbox.py): start(), the      *)
(*     construction sequence, wait_for_start() and stop();                 *)
(*   - Container (appstart/container.py): the constructor with its SIGINT  *)
(*     guard, kill(), remove() and start();                                *)
(*   - the docker daemon the two talk to, as far as the calls they issue   *)
(*     observe it: a container is created, running, exited or removed, and *)
(*     every call either succeeds or raises.                               *)
(* The main thread advances one remote call (or one local assignment that  *)
(* an interrupt can separate from its neighbours) per step.                *)
(***************************************************************************)
EXTENDS Integers, Sequences, FiniteSets, TLC

\* ------------------------------------------------------------------ bounds

\* How many times the caller calls stop() in one run.
MaxStops == 2
\* How many SIGINTs are delivered in one run.
MaxSigints == 2
\* How many times somebody else kills or removes a container of the runtime.
MaxOutOfBand == 1
\* How many Container objects one process constructs.
MaxConstructions == 2
\* How many relay threads stream_logs starts in one run.
MaxThreads == 1
\* How many lines a container's output holds.
MaxLines == 1

\* --------------------------------------------------------------- constants

\* container_sandbox.py:29
MAX_ATTEMPTS == 30

\* Python's None, as the value of an absent container id.
None == 0

\* The exceptions that travel through start() and stop().
KeyboardInterrupt == "KeyboardInterrupt"
SystemExit == "SystemExit"
NoExc == "none"

VARIABLES
  \* --- configuration (ContainerSandbox.__init__)
  run_devappserver,        \* self.run_devappserver
  image_name,              \* self.image_name: None or "image"
  \* --- the docker daemon
  rt,                      \* sequence: rt[id] is the state of container id
  images,                  \* the images built so far
  log,                     \* the calls issued to the docker client, in order
  oob,                     \* out-of-band mutations so far
  \* --- ContainerSandbox
  devappserver_container,  \* self.devappserver_container, a dict
  app_container,           \* self.app_container, a dict
  pc,                      \* where the main thread is
  pending,                 \* id allocated by a create_container not yet returned
  attempt,                 \* wait_for_start's local attempt (0 outside the call)
  sleeps,                  \* time.sleep(1) calls of the running wait_for_start
  stop_ctx,                \* who called the running stop()
  stop_idx,                \* position of stop's loop over the two dicts
  cont_id,                 \* stop's local cont_id
  teardown,                \* number of the current (or last) stop() call
  orig_exc,                \* what create_and_run_containers raised
  cleanup_done,            \* start()'s own stop() call returned
  start_result,            \* "not_called", "active", "returned", "raised"
  start_exc,               \* the exception start() raised to its caller
  stop_result,             \* last caller's stop(): "none", "returned", "raised"
  stop_exc,                \* the exception that stop() raised
  stops,                   \* stop() calls made by the caller
  stopped_clean,           \* a stop() returned and start() has not begun since
  sigints,                 \* SIGINTs delivered
  sig_in_create            \* a SIGINT arrived while create_container was out
  \* --- Container (container.py)
  , EXITING                \* the module global _EXITING
  , handler                \* the process's SIGINT handler
  , prev                   \* __init__'s local prev
  , container_id           \* self.__container_id
  , cpc                    \* where the thread using the Container is
  , c_cid                  \* id the daemon allocated for this Container
  , c_result               \* how the last Container call ended
  , c_exc                  \* the exception it raised
  , c_sig_in_create        \* SIGINT was delivered while create was outstanding
  , c_remove_issued        \* the constructor's handler issued remove_container
  , constructions          \* Container objects constructed so far
  , m_issued               \* the docker calls the last kill/remove/start issued
  , m_exc                  \* what that kill/remove/start raised
  , m_ret                  \* what the last method returned: "None", "True", "False"
  , threads                \* the log_printer threads started by stream_logs
  , c_exiting0             \* _EXITING when the last constructor call began
  , c_sigints0             \* the SIGINTs delivered before that call began
  \* --- ContainerSandbox.__init__
  , config_file            \* what is at the path given as config_file
  , init_result            \* "none", "constructed", "raised"
  , init_exc               \* the exception __init__ raised

svars ==
  << run_devappserver, image_name, rt, images, log, oob,
     devappserver_container, app_container, pc, pending, attempt, sleeps,
     stop_ctx, stop_idx, cont_id, teardown, orig_exc, cleanup_done,
     start_result, start_exc, stop_result, stop_exc, stops, stopped_clean,
     sigints, sig_in_create >>

cvars ==
  << EXITING, handler, prev, container_id, cpc, c_cid, c_result, c_exc,
     c_sig_in_create, c_remove_issued, constructions, m_issued, m_exc,
     m_ret, threads, c_exiting0, c_sigints0 >>

ivars ==
  << config_file, init_result, init_exc >>

vars ==
  << svars, cvars, ivars >>

\* ------------------------------------------------------------ docker daemon

\* A container that exists on the runtime (created and not removed).
Allocated(id) ==
  id \in DOMAIN rt /\ rt[id] \in {"created", "running", "exited"}

AllocatedIds ==
  {id \in DOMAIN rt : Allocated(id)}

\* One entry of the call log.
Call(op, name, id, nm, ok) ==
  [op |-> op, name |-> name, id |-> id, nm |-> nm, ok |-> ok, stop |-> teardown]

\* The log entry of a create_container call, with the image and the ports
\* it asks for.
CreateCall(name, id, image, ports, ok) ==
  [op |-> "create_container", name |-> name, id |-> id, nm |-> None,
   ok |-> ok, stop |-> teardown, image |-> image, ports |-> ports]

\* dict.get('Id') on one of the sandbox's two dicts.
GetId(cont) ==
  IF cont.has THEN cont.Id ELSE None

\* The empty dict {} both handles start as.
EmptyDict ==
  [has |-> FALSE, Id |-> None]

\* The dict create_container returns.
CreatedDict(id) ==
  [has |-> TRUE, Id |-> id]

\* The id the daemon gave to the container created under `name`
\* ("devappserver" or "test_app"), None when no such create succeeded.
CreatedId(name) ==
  LET S == {i \in DOMAIN log : /\ log[i].op = "create_container"
                               /\ log[i].name = name
                               /\ log[i].ok}
  IN  IF S = {} THEN None ELSE log[CHOOSE i \in S : TRUE].id

\* The container ids the sandbox's two dicts record.
TrackedIds ==
  {GetId(devappserver_container), GetId(app_container)} \ {None}

\* ---------------------------------------------------------- ContainerSandbox

\* The positions of create_and_run_containers.
ConstructPcs ==
  {"das_build", "das_create", "das_create_ret", "das_start", "app_image",
   "app_create", "app_create_ret", "app_start", "wait_for_start",
   "wfs_break"}

\* The positions of stop_and_remove_containers.
StopPcs ==
  {"stop_check", "stop_kill", "stop_clear", "stop_remove"}

\* The positions where a create_container request is out and not yet returned.
CreateOutstandingPcs ==
  {"das_create_ret", "app_create_ret"}

\* The variables of the sandbox that only start()/stop() bookkeeping touches.
outcome_vars ==
  << start_result, start_exc, stop_result, stop_exc, cleanup_done >>

\* A start() whose KeyboardInterrupt handler re-raised instead of exiting.
HandlerOutcomeReraise(orig) ==
  orig

\* What start()'s handlers hand to the caller once their stop() returned:
\* "except KeyboardInterrupt" ends in sys.exit(0), the bare except re-raises.
HandlerOutcome(orig) ==
  IF orig = KeyboardInterrupt THEN SystemExit ELSE orig

\* An application container started without the shared network mode.
NetworkModeNone(run, dev) ==
  None

\* The network mode the application container is started with.
NetworkMode(run, dev) ==
  IF run THEN GetId(dev) ELSE None

\* A stop() that forgot to clear the id it has torn down.
ClearIdKeep(cont) ==
  cont

\* cont['Id'] = None
ClearId(cont) ==
  [cont EXCEPT !.Id = None]

\* The list stop_and_remove_containers iterates over, by position.
Cont(idx) ==
  IF idx = 1 THEN devappserver_container ELSE app_container

\* A wait_for_start that begins its loop anew where it should give up.
RaiseInConstructRestartProbe(e) ==
  IF e = "RuntimeError"
    THEN UNCHANGED << pc, orig_exc, stop_ctx, stop_idx, teardown >>
    ELSE /\ orig_exc' = e
         /\ stop_ctx' = IF e = KeyboardInterrupt THEN "except_ki" ELSE "except"
         /\ pc' = "stop_check"
         /\ stop_idx' = 1
         /\ teardown' = teardown + 1

\* create_and_run_containers raises e: start()'s except clause calls stop().
RaiseInConstruct(e) ==
  /\ orig_exc' = e
  /\ stop_ctx' = IF e = KeyboardInterrupt THEN "except_ki" ELSE "except"
  /\ pc' = "stop_check"
  /\ stop_idx' = 1
  /\ teardown' = teardown + 1

\* A stop() call ends, normally (e = NoExc) or by raising e, and control goes
\* back to whoever called it: the caller of the sandbox, or start()'s handler,
\* which then exits or re-raises.
StopEnd(e) ==
  /\ pc' = "idle"
  /\ stop_ctx' = "none"
  /\ stopped_clean' = (stopped_clean \/ e = NoExc)
  /\ IF stop_ctx = "caller"
       THEN /\ stop_result' = IF e = NoExc THEN "returned" ELSE "raised"
            /\ stop_exc' = e
            /\ UNCHANGED << start_result, start_exc, cleanup_done >>
       ELSE /\ start_result' = "raised"
            /\ start_exc' = IF e = NoExc THEN HandlerOutcome(orig_exc) ELSE e
            /\ cleanup_done' = (e = NoExc)
            /\ UNCHANGED << stop_result, stop_exc >>

\* The caller calls start().
CallStart ==
  /\ pc = "idle"
  /\ start_result = "not_called"
  /\ start_result' = "active"
  /\ pc' = IF run_devappserver THEN "das_build" ELSE "app_image"
  /\ stopped_clean' = FALSE
  /\ UNCHANGED << run_devappserver, image_name, rt, images, log, oob,
                  devappserver_container, app_container, pending, attempt,
                  sleeps, stop_ctx, stop_idx, cont_id, teardown, orig_exc,
                  cleanup_done, start_exc, stop_result, stop_exc, stops,
                  sigints, sig_in_create, cvars, ivars >>

\* build_devappserver_image(): dclient.build and the check of its results.
DasBuild ==
  /\ pc = "das_build"
  /\ \E ok \in BOOLEAN :
       /\ log' = Append(log, Call("build", "devappserver_image", None, None, ok))
       /\ IF ok
            THEN /\ images' = images \cup {"devappserver_image"}
                 /\ pc' = "das_create"
                 /\ UNCHANGED << orig_exc, stop_ctx, stop_idx, teardown >>
            ELSE /\ RaiseInConstruct("BuildError")
                 /\ UNCHANGED images
  /\ UNCHANGED << run_devappserver, image_name, rt, oob,
                  devappserver_container, app_container, pending, attempt,
                  sleeps, cont_id, outcome_vars, stops, stopped_clean,
                  sigints, sig_in_create, cvars, ivars >>

\* dclient.create_container(name=devappserver...) is sent: the daemon
\* allocates the container, or the call raises.
DasCreate ==
  /\ pc = "das_create"
  /\ \E ok \in BOOLEAN :
       IF ok
         THEN /\ rt' = Append(rt, "created")
              /\ pending' = Len(rt) + 1
              /\ log' = Append(log, CreateCall("devappserver", Len(rt) + 1,
                                               "devappserver_image",
                                               "proxy_admin", TRUE))
              /\ pc' = "das_create_ret"
              /\ UNCHANGED << orig_exc, stop_ctx, stop_idx, teardown >>
         ELSE /\ log' = Append(log, CreateCall("devappserver", None,
                                               "devappserver_image",
                                               "proxy_admin", FALSE))
              /\ RaiseInConstruct("CreateError")
              /\ UNCHANGED << rt, pending >>
  /\ UNCHANGED << run_devappserver, image_name, images, oob,
                  devappserver_container, app_container, attempt,
                  sleeps, cont_id, outcome_vars, stops, stopped_clean,
                  sigints, sig_in_create, cvars, ivars >>

\* The create_container call returns and its result is stored in
\* self.devappserver_container.
DasCreateRet ==
  /\ pc = "das_create_ret"
  /\ devappserver_container' = CreatedDict(pending)
  /\ pending' = None
  /\ pc' = "das_start"
  /\ UNCHANGED << run_devappserver, image_name, rt, images, log, oob,
                  app_container, attempt, sleeps, stop_ctx, stop_idx,
                  cont_id, teardown, orig_exc, outcome_vars, stops,
                  stopped_clean, sigints, sig_in_create, cvars, ivars >>

\* self.dclient.start(self.devappserver_container.get('Id'))
DasStart ==
  /\ pc = "das_start"
  /\ \E ok \in BOOLEAN :
       LET id == GetId(devappserver_container)
           success == ok /\ id \in DOMAIN rt /\ rt[id] = "created"
       IN  /\ log' = Append(log, Call("start", "devappserver", id, None, success))
           /\ IF success
                THEN /\ rt' = [rt EXCEPT ![id] = "running"]
                     /\ pc' = "app_image"
                     /\ UNCHANGED << orig_exc, stop_ctx, stop_idx, teardown >>
                ELSE /\ RaiseInConstruct("StartError")
                     /\ UNCHANGED rt
  /\ UNCHANGED << run_devappserver, image_name, images, oob,
                  devappserver_container, app_container, pending, attempt,
                  sleeps, cont_id, outcome_vars, stops, stopped_clean,
                  sigints, sig_in_create, cvars, ivars >>

\* A sandbox that builds the application image whatever it was given.
NeedsBuildAlways(name) ==
  TRUE

\* A sandbox that never builds the application image.
NeedsBuildNever(name) ==
  FALSE

\* `self.image_name or ...`: the application image is built exactly when no
\* image name was given.
NeedsBuild(name) ==
  name = "None"

\* The value of app_image: the image name given, or else the image that
\* build_app_image built.
AppImageOf(name) ==
  IF NeedsBuild(name) THEN "app_image" ELSE name

\* app_image = self.image_name or self.build_app_image()
AppImage ==
  /\ pc = "app_image"
  /\ IF ~NeedsBuild(image_name)
       THEN /\ pc' = "app_create"
            /\ UNCHANGED << log, images, orig_exc, stop_ctx, stop_idx, teardown >>
       ELSE \E ok \in BOOLEAN :
              /\ log' = Append(log, Call("build", "app_image", None, None, ok))
              /\ IF ok
                   THEN /\ images' = images \cup {"app_image"}
                        /\ pc' = "app_create"
                        /\ UNCHANGED << orig_exc, stop_ctx, stop_idx, teardown >>
                   ELSE /\ RaiseInConstruct("BuildError")
                        /\ UNCHANGED images
  /\ UNCHANGED << run_devappserver, image_name, rt, oob,
                  devappserver_container, app_container, pending, attempt,
                  sleeps, cont_id, outcome_vars, stops, stopped_clean,
                  sigints, sig_in_create, cvars, ivars >>

\* An application container that always publishes its port.
AppPortsAlways(run) ==
  "8080"

\* ports and port_bindings of the application container: the default
\* application port when the devappserver runs, None otherwise.
AppPorts(run) ==
  IF run THEN "8080" ELSE "None"

\* dclient.create_container(name=test_app...) is sent.
AppCreate ==
  /\ pc = "app_create"
  /\ \E ok \in BOOLEAN :
       IF ok
         THEN /\ rt' = Append(rt, "created")
              /\ pending' = Len(rt) + 1
              /\ log' = Append(log, CreateCall("test_app", Len(rt) + 1,
                                               AppImageOf(image_name),
                                               AppPorts(run_devappserver),
                                               TRUE))
              /\ pc' = "app_create_ret"
              /\ UNCHANGED << orig_exc, stop_ctx, stop_idx, teardown >>
         ELSE /\ log' = Append(log, CreateCall("test_app", None,
                                               AppImageOf(image_name),
                                               AppPorts(run_devappserver),
                                               FALSE))
              /\ RaiseInConstruct("CreateError")
              /\ UNCHANGED << rt, pending >>
  /\ UNCHANGED << run_devappserver, image_name, images, oob,
                  devappserver_container, app_container, attempt,
                  sleeps, cont_id, outcome_vars, stops, stopped_clean,
                  sigints, sig_in_create, cvars, ivars >>

\* The call returns and its result is stored in self.app_container.
AppCreateRet ==
  /\ pc = "app_create_ret"
  /\ app_container' = CreatedDict(pending)
  /\ pending' = None
  /\ pc' = "app_start"
  /\ UNCHANGED << run_devappserver, image_name, rt, images, log, oob,
                  devappserver_container, attempt, sleeps, stop_ctx, stop_idx,
                  cont_id, teardown, orig_exc, outcome_vars, stops,
                  stopped_clean, sigints, sig_in_create, cvars, ivars >>

\* self.dclient.start(self.app_container.get('Id'), network_mode=network_mode)
AppStart ==
  /\ pc = "app_start"
  /\ \E ok \in BOOLEAN :
       LET id == GetId(app_container)
           nm == NetworkMode(run_devappserver, devappserver_container)
           success == ok /\ id \in DOMAIN rt /\ rt[id] = "created"
       IN  /\ log' = Append(log, Call("start", "test_app", id, nm, success))
           /\ IF success
                THEN /\ rt' = [rt EXCEPT ![id] = "running"]
                     /\ pc' = "wait_for_start"
                     /\ attempt' = 1
                     /\ UNCHANGED << orig_exc, stop_ctx, stop_idx, teardown >>
                ELSE /\ RaiseInConstruct("StartError")
                     /\ UNCHANGED << rt, attempt >>
  /\ UNCHANGED << run_devappserver, image_name, images, oob,
                  devappserver_container, app_container, pending,
                  sleeps, cont_id, outcome_vars, stops, stopped_clean,
                  sigints, sig_in_create, cvars, ivars >>

\* A loop that gives up one refused attempt early.
ExhaustedEarly(a) ==
  a >= MAX_ATTEMPTS

\* if attempt > MAX_ATTEMPTS: raise RuntimeError
Exhausted(a) ==
  a > MAX_ATTEMPTS

\* A loop that counts the attempt that connected as well.
AttemptAfterGetCounted(a, connected) ==
  a + 1

\* attempt after one requests.get: `break` leaves it alone, a refused
\* connection falls through to attempt += 1.
AttemptAfterGet(a, connected) ==
  IF connected THEN a ELSE a + 1

\* One round of wait_for_start's loop: requests.get connects (break) or is
\* refused (attempt += 1, then the timeout error or a sleep).
WaitForStart ==
  /\ pc = "wait_for_start"
  /\ \E up \in BOOLEAN :
       LET id == GetId(app_container)
           connected == up /\ id \in DOMAIN rt /\ rt[id] = "running"
           a == AttemptAfterGet(attempt, connected)
       IN  IF connected
             THEN /\ pc' = "wfs_break"
                  /\ attempt' = a
                  /\ UNCHANGED << sleeps, orig_exc, stop_ctx, stop_idx,
                                  teardown >>
             ELSE IF Exhausted(a)
                    THEN /\ RaiseInConstruct("RuntimeError")
                         /\ attempt' = 0
                         /\ sleeps' = 0
                    ELSE /\ attempt' = a
                         /\ sleeps' = sleeps + 1
                         /\ UNCHANGED << pc, orig_exc, stop_ctx, stop_idx,
                                         teardown >>
  /\ UNCHANGED << run_devappserver, image_name, rt, images, log, oob,
                  devappserver_container, app_container, pending, cont_id,
                  outcome_vars, stops, stopped_clean, sigints, sig_in_create,
                  cvars, ivars >>

\* The loop was left by `break`: wait_for_start returns (attempt and sleeps
\* are its own and end with it), then create_and_run_containers and start().
WaitReturn ==
  /\ pc = "wfs_break"
  /\ pc' = "idle"
  /\ start_result' = "returned"
  /\ attempt' = 0
  /\ sleeps' = 0
  /\ UNCHANGED << run_devappserver, image_name, rt, images, log, oob,
                  devappserver_container, app_container, pending, stop_ctx,
                  stop_idx, cont_id, teardown, orig_exc, cleanup_done,
                  start_exc, stop_result, stop_exc, stops, stopped_clean,
                  sigints, sig_in_create, cvars, ivars >>

\* The caller calls stop().
CallStop ==
  /\ pc = "idle"
  /\ start_result # "active"
  /\ stops < MaxStops
  /\ stops' = stops + 1
  /\ teardown' = teardown + 1
  /\ stop_ctx' = "caller"
  /\ stop_idx' = 1
  /\ pc' = "stop_check"
  /\ stop_result' = "active"
  /\ stop_exc' = NoExc
  /\ UNCHANGED << run_devappserver, image_name, rt, images, log, oob,
                  devappserver_container, app_container, pending, attempt,
                  sleeps, cont_id, orig_exc, cleanup_done, start_result,
                  start_exc, stopped_clean, sigints, sig_in_create, cvars, ivars >>

\* The head of stop's loop: the next dict of the list is looked at, and
\* skipped when it has no 'Id' key or its id is None.
StopCheck ==
  /\ pc = "stop_check"
  /\ stop_idx <= 2
  /\ LET cont == Cont(stop_idx)
     IN  IF cont.has /\ cont.Id # None
           THEN /\ cont_id' = cont.Id
                /\ pc' = "stop_kill"
                /\ UNCHANGED stop_idx
           ELSE /\ stop_idx' = stop_idx + 1
                /\ UNCHANGED << cont_id, pc >>
  /\ UNCHANGED << run_devappserver, image_name, rt, images, log, oob,
                  devappserver_container, app_container, pending, attempt,
                  sleeps, stop_ctx, teardown, orig_exc, outcome_vars, stops,
                  stopped_clean, sigints, sig_in_create, cvars, ivars >>

\* self.dclient.kill(cont_id): nothing in stop() catches what it raises.
StopKill ==
  /\ pc = "stop_kill"
  /\ \E ok \in BOOLEAN :
       LET success == ok /\ Allocated(cont_id)
       IN  /\ log' = Append(log, Call("kill", "", cont_id, None, success))
           /\ IF success
                THEN /\ rt' = [rt EXCEPT ![cont_id] = "exited"]
                     /\ pc' = "stop_clear"
                     /\ UNCHANGED << stop_ctx, outcome_vars, stopped_clean >>
                ELSE /\ StopEnd("KillError")
                     /\ UNCHANGED rt
  /\ UNCHANGED << run_devappserver, image_name, images, oob,
                  devappserver_container, app_container, pending, attempt,
                  sleeps, stop_idx, cont_id, teardown, orig_exc, stops,
                  sigints, sig_in_create, cvars, ivars >>

\* cont['Id'] = None, before the container is removed.
StopClear ==
  /\ pc = "stop_clear"
  /\ IF stop_idx = 1
       THEN /\ devappserver_container' = ClearId(devappserver_container)
            /\ UNCHANGED app_container
       ELSE /\ app_container' = ClearId(app_container)
            /\ UNCHANGED devappserver_container
  /\ pc' = "stop_remove"
  /\ UNCHANGED << run_devappserver, image_name, rt, images, log, oob,
                  pending, attempt, sleeps, stop_ctx, stop_idx, cont_id,
                  teardown, orig_exc, outcome_vars, stops, stopped_clean,
                  sigints, sig_in_create, cvars, ivars >>

\* A teardown that asks the daemon to remove an image instead.
RemoveImageCall(id, ok) ==
  Call("remove_image", "", id, None, ok)

\* The call stop() makes once the container is killed:
\* self.dclient.remove_container(cont_id).
RemoveContainerCall(id, ok) ==
  Call("remove_container", "", id, None, ok)

\* self.dclient.remove_container(cont_id)
StopRemove ==
  /\ pc = "stop_remove"
  /\ \E ok \in BOOLEAN :
       LET success == ok /\ Allocated(cont_id) /\ rt[cont_id] # "running"
       IN  /\ log' = Append(log, RemoveContainerCall(cont_id, success))
           /\ IF success
                THEN /\ rt' = [rt EXCEPT ![cont_id] = "removed"]
                     /\ pc' = "stop_check"
                     /\ stop_idx' = stop_idx + 1
                     /\ UNCHANGED << stop_ctx, outcome_vars, stopped_clean >>
                ELSE /\ StopEnd("RemoveError")
                     /\ UNCHANGED << rt, stop_idx >>
  /\ UNCHANGED << run_devappserver, image_name, images, oob,
                  devappserver_container, app_container, pending, attempt,
                  sleeps, cont_id, teardown, orig_exc, stops,
                  sigints, sig_in_create, cvars, ivars >>

\* The loop is over: stop() returns.
StopReturn ==
  /\ pc = "stop_check"
  /\ stop_idx > 2
  /\ StopEnd(NoExc)
  /\ UNCHANGED << run_devappserver, image_name, rt, images, log, oob,
                  devappserver_container, app_container, pending, attempt,
                  sleeps, stop_idx, cont_id, teardown, orig_exc, stops,
                  sigints, sig_in_create, cvars, ivars >>

\* SIGINT reaches the main thread while it is inside start() or stop(). The
\* sandbox installs no handler, so Python raises KeyboardInterrupt where the
\* thread stands: inside create_and_run_containers it is caught by start(),
\* inside stop() it leaves stop() (and start(), when start()'s handler called it).
SigInt ==
  /\ sigints < MaxSigints
  /\ pc \in ConstructPcs \cup StopPcs
  /\ sigints' = sigints + 1
  /\ attempt' = 0
  /\ sleeps' = 0
  /\ IF pc \in ConstructPcs
       THEN /\ RaiseInConstruct(KeyboardInterrupt)
            /\ sig_in_create' = (sig_in_create \/ pc \in CreateOutstandingPcs)
            /\ UNCHANGED << outcome_vars, stopped_clean >>
       ELSE /\ StopEnd(KeyboardInterrupt)
            /\ UNCHANGED << sig_in_create, orig_exc, stop_idx, teardown >>
  /\ UNCHANGED << run_devappserver, image_name, rt, images, log, oob,
                  devappserver_container, app_container, pending,
                  cont_id, stops, cvars, ivars >>

\* Somebody else kills or removes one of the runtime's containers.
OutOfBand ==
  /\ oob < MaxOutOfBand
  /\ oob' = oob + 1
  /\ \E id \in AllocatedIds, what \in {"kill", "remove"} :
       rt' = [rt EXCEPT ![id] = IF what = "kill" THEN "exited" ELSE "removed"]
  /\ UNCHANGED << run_devappserver, image_name, images, log,
                  devappserver_container, app_container, pc, pending, attempt,
                  sleeps, stop_ctx, stop_idx, cont_id, teardown, orig_exc,
                  outcome_vars, stops, stopped_clean, sigints, sig_in_create,
                  cvars, ivars >>

\* ------------------------------------------------- ContainerSandbox.__init__

\* What can be at the path given as config_file: nothing, or a file with
\* some extension, with or without a web.xml next to it.
ConfigFiles ==
  [exists : BOOLEAN, ext : {"yaml", "xml", "txt"}, webxml : BOOLEAN]

\* A verify_structure that does not test whether the path exists.
VerifyStructureNoExists(conf) ==
  IF conf.ext \notin {"xml", "yaml"} THEN "ValueError"
  ELSE IF conf.ext = "xml" /\ ~conf.webxml THEN "IOError"
  ELSE NoExc

\* verify_structure: the exception it raises, NoExc when it returns.
VerifyStructure(conf) ==
  IF ~conf.exists THEN "IOError"
  ELSE IF conf.ext \notin {"xml", "yaml"} THEN "ValueError"
  ELSE IF conf.ext = "xml" /\ ~conf.webxml THEN "IOError"
  ELSE NoExc

\* The calls utils.get_docker_client() issues to the docker daemon while it
\* makes the client: none.
GetDockerClientCalls ==
  << >>

\* ContainerSandbox.__init__: the client is obtained, then the configuration
\* file is verified; the object exists only if verify_structure returned.
SandboxInit ==
  /\ pc = "init"
  /\ init_result = "none"
  /\ log' = log \o GetDockerClientCalls
  /\ LET e == VerifyStructure(config_file)
     IN  IF e = NoExc
           THEN /\ init_result' = "constructed"
                /\ pc' = "idle"
                /\ UNCHANGED init_exc
           ELSE /\ init_result' = "raised"
                /\ init_exc' = e
                /\ UNCHANGED pc
  /\ UNCHANGED << run_devappserver, image_name, rt, images, oob,
                  devappserver_container, app_container, pending, attempt,
                  sleeps, stop_ctx, stop_idx, cont_id, teardown, orig_exc,
                  outcome_vars, stops, stopped_clean, sigints, sig_in_create,
                  cvars, config_file >>

\* ------------------------------------------------------------ specification

\* What holds both before and after ContainerSandbox.__init__: the arguments
\* given, an untouched runtime, the two empty dicts, and container.py as its
\* import leaves it.
InitCommon ==
  /\ run_devappserver \in BOOLEAN
  /\ image_name \in {"None", "test_image"}
  /\ rt = << >>
  /\ images = {}
  /\ log = << >>
  /\ oob = 0
  /\ devappserver_container = EmptyDict
  /\ app_container = EmptyDict
  /\ pending = None
  /\ attempt = 0
  /\ sleeps = 0
  /\ stop_ctx = "none"
  /\ stop_idx = 0
  /\ cont_id = None
  /\ teardown = 0
  /\ orig_exc = NoExc
  /\ cleanup_done = FALSE
  /\ start_result = "not_called"
  /\ start_exc = NoExc
  /\ stop_result = "none"
  /\ stop_exc = NoExc
  /\ stops = 0
  /\ stopped_clean = FALSE
  /\ sigints = 0
  /\ sig_in_create = FALSE
  /\ EXITING = FALSE
  /\ handler = "default"
  /\ prev = "default"
  /\ container_id = None
  /\ cpc = "idle"
  /\ c_cid = None
  /\ c_result = "none"
  /\ c_exc = NoExc
  /\ c_sig_in_create = FALSE
  /\ c_remove_issued = FALSE
  /\ constructions = 0
  /\ m_issued = << >>
  /\ m_exc = NoExc
  /\ m_ret = "None"
  /\ threads = << >>
  /\ c_exiting0 = FALSE
  /\ c_sigints0 = 0

\* The state after ContainerSandbox.__init__ (given a configuration file
\* that passed verify_structure) and after the import of container.py.
Init ==
  /\ InitCommon
  /\ pc = "idle"
  /\ config_file = [exists |-> TRUE, ext |-> "yaml", webxml |-> FALSE]
  /\ init_result = "constructed"
  /\ init_exc = NoExc

Next ==
  \/ CallStart
  \/ DasBuild
  \/ DasCreate
  \/ DasCreateRet
  \/ DasStart
  \/ AppImage
  \/ AppCreate
  \/ AppCreateRet
  \/ AppStart
  \/ WaitForStart
  \/ WaitReturn
  \/ CallStop
  \/ StopCheck
  \/ StopKill
  \/ StopClear
  \/ StopRemove
  \/ StopReturn
  \/ SigInt
  \/ OutOfBand

Spec ==
  Init /\ [][Next]_vars

\* The steps of the thread that runs start() and stop(): each is a remote
\* call, a probe attempt or a local statement.
MainThread ==
  \/ DasBuild
  \/ DasCreate
  \/ DasCreateRet
  \/ DasStart
  \/ AppImage
  \/ AppCreate
  \/ AppCreateRet
  \/ AppStart
  \/ WaitForStart
  \/ WaitReturn
  \/ StopCheck
  \/ StopKill
  \/ StopClear
  \/ StopRemove
  \/ StopReturn

\* The sandbox under the assumption that every remote call and every probe
\* attempt returns: the thread inside start() or stop() keeps taking steps.
SpecFair ==
  Init /\ [][Next]_vars /\ WF_vars(MainThread)

\* The state before ContainerSandbox(...) is called, for every kind of path
\* the caller may give.
InitConstruct ==
  /\ InitCommon
  /\ pc = "init"
  /\ config_file \in ConfigFiles
  /\ init_result = "none"
  /\ init_exc = NoExc

NextConstruct ==
  \/ SandboxInit
  \/ Next

\* The sandbox from its construction on.
SpecConstruct ==
  InitConstruct /\ [][NextConstruct]_vars

\* ------------------------------------------------- claims on ContainerSandbox

\* start() has handed control back to its caller by raising.
StartFailed ==
  start_result = "raised"

\* C1: whenever start() has failed (build, create or start error, probe
\* exhaustion, interrupt), no container of this run is still allocated on
\* the runtime at the moment control is back with the caller. Stated here
\* for the runs in which no interrupt was delivered at all, which the claim
\* covers.
C1_NothingAllocatedAfterFailedStart ==
  (StartFailed /\ sigints = 0) => AllocatedIds = {}

\* C2: in every teardown that issues a kill for both containers, the kill for
\* the application container comes before the kill for the devappserver
\* container.
C2_AppKilledBeforeDevappserver ==
  \A i \in DOMAIN log, j \in DOMAIN log :
    ( /\ log[i].op = "kill"
      /\ log[j].op = "kill"
      /\ log[i].stop = log[j].stop
      /\ log[i].id = CreatedId("devappserver")
      /\ log[j].id = CreatedId("test_app") )
    => j < i

\* C3: when create_and_run_containers fails with a non-interrupt error E,
\* the error start() raises is E, also when the cleanup's kill or remove
\* fails (runs in which an interrupt was delivered are left aside).
C3_OriginalErrorPropagates ==
  (StartFailed /\ sigints = 0 /\ orig_exc \notin {NoExc, KeyboardInterrupt})
    => start_exc = orig_exc

C5_InterruptedCreateIsTracked ==
  (sig_in_create /\ pc = "stop_check" /\ stop_idx = 1 /\ stop_ctx = "except_ki")
    => AllocatedIds \subseteq TrackedIds

\* The application container is in the started state.
AppStarted ==
  LET id == CreatedId("test_app")
  IN  id \in DOMAIN rt /\ rt[id] = "running"

\* C7: with run_api_server=True the application container is never started
\* while the devappserver dict holds no id.
C7_AppNeverStartedWithoutDevappserver ==
  run_devappserver
    => ~(AppStarted /\ GetId(devappserver_container) = None)

\* C8: with run_api_server=True, a successful start of the devappserver
\* container precedes every create_container of the application container,
\* and every start of the application container passes the devappserver
\* container's id as its network mode.
C8_DevappserverStartedBeforeAppCreated ==
  run_devappserver =>
    /\ \A j \in DOMAIN log :
         (log[j].op = "create_container" /\ log[j].name = "test_app")
           => \E i \in 1..(j - 1) :
                /\ log[i].op = "start"
                /\ log[i].ok
                /\ log[i].id = CreatedId("devappserver")
                /\ log[i].id # None
    /\ \A j \in DOMAIN log :
         (log[j].op = "start" /\ log[j].name = "test_app")
           => /\ log[j].nm = CreatedId("devappserver")
              /\ log[j].nm # None

\* C8's case: both tiers are up.
C8_Witness ==
  /\ run_devappserver
  /\ \E j \in DOMAIN log :
       log[j].op = "start" /\ log[j].name = "test_app" /\ log[j].ok

\* C9: a stop() called by the sandbox's caller never raises an error
\* (an interrupt delivered inside stop() is not counted as one).
C9_StopNeverRaises ==
  sigints = 0 => stop_result # "raised"

\* C10: stop() is idempotent. Once a stop() has returned, both dicts hold no
\* id; and a stop() called after that, or before any container was created,
\* issues no call to the docker client and changes neither the dicts nor the
\* runtime.
C10_StopIdempotent ==
  [][ /\ stopped_clean' => TrackedIds' = {}
      /\ ( /\ stop_ctx = "caller"
           /\ pc \in StopPcs
           /\ (stopped_clean \/ Len(rt) = 0)
           /\ oob' = oob )
         => /\ log' = log
            /\ rt' = rt
            /\ images' = images
            /\ devappserver_container' = devappserver_container
            /\ app_container' = app_container ]_vars

\* C10's case: both containers were created, one stop() killed and removed
\* them, and a later stop() has returned as well.
C10_Witness ==
  /\ Len(rt) = 2
  /\ AllocatedIds = {}
  /\ oob = 0
  /\ sigints = 0
  /\ stops >= 2
  /\ pc = "idle"
  /\ stop_result = "returned"
  /\ \A i \in DOMAIN log : log[i].op = "remove_container" => log[i].stop < teardown

\* C11: when an image build of start() fails (the devappserver image or the
\* application image), no create_container call has been issued before it in
\* that run.
C11_NoCreateBeforeFailedBuild ==
  \A i \in DOMAIN log :
    (log[i].op = "build" /\ ~log[i].ok)
      => \A j \in 1..(i - 1) : log[j].op # "create_container"

\* C12: against a target that refuses every connection, wait_for_start makes
\* exactly MAX_ATTEMPTS attempts with one sleep between consecutive attempts
\* (sleeps = attempts - 1), and then raises RuntimeError. While the loop runs,
\* attempt is the number of the attempt being made and all earlier ones were
\* refused; the timeout error is raised by the refusal of attempt number
\* MAX_ATTEMPTS and by nothing else, and no further attempt follows it.
C12_ExactlyMaxAttemptsThenTimeout ==
  [][ /\ pc = "wait_for_start"
           => /\ attempt \in 1..MAX_ATTEMPTS
              /\ sleeps = attempt - 1
              /\ (pc' = "wait_for_start" /\ attempt' # attempt)
                   => /\ attempt' = attempt + 1
                      /\ sleeps' = sleeps + 1
                      /\ attempt' <= MAX_ATTEMPTS
      /\ (orig_exc' = "RuntimeError" /\ orig_exc # "RuntimeError")
           => /\ pc = "wait_for_start"
              /\ attempt = MAX_ATTEMPTS
              /\ sleeps = MAX_ATTEMPTS - 1
              /\ pc' = "stop_check" ]_vars

\* C12's case: every attempt was refused and the timeout error was raised.
C12_Witness ==
  /\ orig_exc = "RuntimeError"
  /\ pc = "stop_check"
  /\ sigints = 0
  /\ oob = 0

\* C13: when the first connection that succeeds is attempt k, 1 <= k <=
\* MAX_ATTEMPTS, wait_for_start leaves its loop right after attempt k: k
\* attempts and k - 1 sleeps were made, the success adds neither an attempt
\* nor a sleep, the loop is never entered again, no timeout error is raised,
\* and start() returns normally unless an interrupt arrives first.
C13_ReturnsRightAfterFirstSuccess ==
  [][ /\ (pc = "wait_for_start" /\ pc' = "wfs_break")
           => /\ attempt \in 1..MAX_ATTEMPTS
              /\ sleeps = attempt - 1
              /\ attempt' = attempt
              /\ sleeps' = sleeps
              /\ orig_exc' = NoExc
      /\ pc = "wfs_break"
           => /\ pc' \in {"wfs_break", "idle", "stop_check"}
              /\ pc' = "wfs_break" => (attempt' = attempt /\ sleeps' = sleeps)
              /\ pc' = "idle" => start_result' = "returned"
              /\ pc' = "stop_check" => orig_exc' = KeyboardInterrupt ]_vars

\* C13's case at its edge: the connection succeeded on attempt MAX_ATTEMPTS.
C13_Witness ==
  /\ pc = "wfs_break"
  /\ attempt = MAX_ATTEMPTS
  /\ sleeps = MAX_ATTEMPTS - 1
  /\ orig_exc = NoExc

\* Some call of the log started container id successfully.
StartedOk(id) ==
  \E i \in DOMAIN log : log[i].op = "start" /\ log[i].id = id /\ log[i].ok

\* C14: start() returns normally only from the successful readiness probe,
\* and at that moment every required image has been built, the devappserver
\* container (when run_devappserver) and the application container have been
\* created and started, every container created is recorded in the sandbox's
\* dicts under its non-empty id, the sandbox has issued no kill and no remove,
\* and (unless somebody else touched the runtime) every container is running.
C14_StartReturnsOnlyWhenRunning ==
  [][ (start_result' = "returned" /\ start_result # "returned")
        => /\ pc = "wfs_break"
           /\ run_devappserver => "devappserver_image" \in images'
           /\ image_name = "None" => "app_image" \in images'
           /\ run_devappserver
                => /\ CreatedId("devappserver") # None
                   /\ GetId(devappserver_container') = CreatedId("devappserver")
                   /\ StartedOk(CreatedId("devappserver"))
           /\ CreatedId("test_app") # None
           /\ GetId(app_container') = CreatedId("test_app")
           /\ StartedOk(CreatedId("test_app"))
           /\ log' = log
           /\ TrackedIds' = DOMAIN rt'
           /\ Len(rt') = IF run_devappserver THEN 2 ELSE 1
           /\ \A i \in DOMAIN log :
                log[i].op \notin {"kill", "remove_container"}
           /\ oob' = 0 => \A id \in DOMAIN rt' : rt'[id] = "running" ]_vars

\* C14's case: start() has returned with both containers created, and no
\* stop() has been called.
C14_Witness ==
  /\ start_result = "returned"
  /\ run_devappserver
  /\ image_name = "None"
  /\ Len(rt) = 2
  /\ stops = 0
  /\ oob = 0

\* The calls of kind op that the caller's first stop() issued for container id.
StopCalls(op, id) ==
  {i \in DOMAIN log : log[i].op = op /\ log[i].id = id /\ log[i].stop = 1}

\* C15: after a successful start() with run_devappserver, the stop() that
\* follows issues, for each of the two containers created, exactly one kill
\* followed by exactly one remove. Stated for the first stop() of a run, once
\* it has ended, in runs without interrupt and without out-of-band mutation.
C15_StopKillsAndRemovesBoth ==
  ( /\ run_devappserver
    /\ start_result = "returned"
    /\ stops = 1
    /\ teardown = 1
    /\ stop_result \in {"returned", "raised"}
    /\ sigints = 0
    /\ oob = 0 )
    => /\ Len(rt) = 2
       /\ \A id \in DOMAIN rt :
            /\ Cardinality(StopCalls("kill", id)) = 1
            /\ Cardinality(StopCalls("remove_container", id)) = 1
            /\ \A k \in StopCalls("kill", id) :
                 \A r \in StopCalls("remove_container", id) : k < r

\* The create_container calls issued so far, failed ones included.
CreateCalls ==
  {i \in DOMAIN log : log[i].op = "create_container"}

ScopeLeft ==
  \/ start_result = "raised" /\ stops = 0
  \/ /\ start_result = "returned"
     /\ stops = 1
     /\ teardown = 1
     /\ stop_result \in {"returned", "raised"}

\* The calls of kind op issued for container id over the whole run.
CallsFor(op, id) ==
  {i \in DOMAIN log : log[i].op = op /\ log[i].id = id}

\* C17: when the sandbox is used as a context manager, on every way of
\* leaving the managed scope the full teardown has run: each container that
\* was created has been killed exactly once and removed exactly once, and is
\* gone from the runtime. Stated for the runs with no interrupt inside
\* start() or stop() and no out-of-band mutation.
C17_ScopeExitTearsDownEverything ==
  (ScopeLeft /\ sigints = 0 /\ oob = 0)
    => \A id \in DOMAIN rt :
         /\ rt[id] = "removed"
         /\ Cardinality(CallsFor("kill", id)) = 1
         /\ Cardinality(CallsFor("remove_container", id)) = 1

DictOf(name) ==
  IF name = "devappserver" THEN devappserver_container ELSE app_container

\* C24: whenever a dict of the sandbox holds no id, no container allocated
\* through it exists on the runtime: it was never created or its removal
\* succeeded, also when a remove call failed. Stated for the moments at
\* which the sandbox is at rest, in runs without interrupt and without
\* out-of-band mutation.
C24_NoIdMeansNoContainer ==
  (pc = "idle" /\ sigints = 0 /\ oob = 0)
    => \A name \in {"devappserver", "test_app"} :
         GetId(DictOf(name)) = None
           => (CreatedId(name) = None \/ rt[CreatedId(name)] = "removed")

\* The build calls issued so far, failed ones included.
BuildCalls ==
  {i \in DOMAIN log : log[i].op = "build"}

\* C26: when an image_name was supplied, start() never builds an application
\* image: every build is the devappserver image's, there is none when
\* run_devappserver is false and at most one when it is true (exactly one
\* from the first create_container on), and the application container is
\* created from the image supplied.
C26_NoAppBuildWithImageName ==
  image_name # "None"
    => /\ \A i \in BuildCalls : log[i].name = "devappserver_image"
       /\ "app_image" \notin images
       /\ Cardinality(BuildCalls) <= (IF run_devappserver THEN 1 ELSE 0)
       /\ (CreateCalls # {} \/ start_result = "returned")
            => Cardinality(BuildCalls) = (IF run_devappserver THEN 1 ELSE 0)
       /\ \A i \in CreateCalls :
            log[i].name = "test_app" => log[i].image = image_name

\* C26's case: start() has returned for a sandbox given an image name and
\* running the devappserver.
C26_Witness ==
  /\ image_name = "test_image"
  /\ run_devappserver
  /\ start_result = "returned"
  /\ Len(rt) = 2

\* C27: if every remote call and every probe attempt returns, a sandbox
\* that start() has put into construction always leaves it: start() returns
\* with the sandbox running, or ends by raising after its teardown has run.
C27_StartAlwaysEnds ==
  (start_result = "active") ~> (start_result \in {"returned", "raised"})

\* C27's case: start() has run into the longest wait there is, all
\* MAX_ATTEMPTS probe attempts and then the teardown, and has ended.
C27_Witness ==
  /\ start_result = "raised"
  /\ orig_exc = "RuntimeError"
  /\ pc = "idle"
  /\ sigints = 0

\* The calls of stop() number t that failed.
FailedIn(t) ==
  {i \in DOMAIN log : /\ log[i].stop = t
                       /\ log[i].op \in {"kill", "remove_container"}
                       /\ ~log[i].ok}

\* C28: in a stop() where the kill or the remove of one container fails, a
\* kill and a remove are still attempted for the other container in that
\* same stop(). Stated for the caller's stop() after a start() that returned
\* with both containers, once that stop() has ended, in runs without
\* interrupt and without out-of-band mutation.
C28_OtherTierStillTornDown ==
  ( /\ start_result = "returned"
    /\ Len(rt) = 2
    /\ teardown = 1
    /\ stop_result \in {"returned", "raised"}
    /\ sigints = 0
    /\ oob = 0 )
    => \A i \in FailedIn(1) :
         \A id \in DOMAIN rt \ {log[i].id} :
           /\ \E k \in DOMAIN log :
                log[k].stop = 1 /\ log[k].op = "kill" /\ log[k].id = id
           /\ \E r \in DOMAIN log :
                /\ log[r].stop = 1
                /\ log[r].op = "remove_container"
                /\ log[r].id = id

\* C29: an interrupt delivered while stop() is executing (called by
\* start()'s handler or by the caller) leaves no container of the run
\* allocated once control is back with the caller. Stated for the runs in
\* which every remote call succeeded, nobody else touched the runtime and
\* no interrupt arrived while a create_container was outstanding.
C29_InterruptInTeardownLeaksNothing ==
  ( /\ pc = "idle"
    /\ (stop_exc = KeyboardInterrupt \/ start_exc = KeyboardInterrupt)
    /\ \A i \in DOMAIN log : log[i].ok
    /\ ~sig_in_create
    /\ oob = 0 )
    => AllocatedIds = {}

\* The images whose build has succeeded.
BuiltImages ==
  {log[i].name : i \in {b \in BuildCalls : log[b].ok}}

\* C31: teardown touches containers only. A step of stop(), whether the
\* caller's or the one start() runs after a failure, issues at most one
\* call, a kill or a remove_container, and leaves the set of images as it
\* is; and every image whose build succeeded exists in every state, before,
\* during and after every stop().
C31_TeardownKeepsImages ==
  [][ /\ BuiltImages' \subseteq images'
      /\ pc \in StopPcs
           => /\ images' = images
              /\ \/ log' = log
                 \/ /\ Len(log') = Len(log) + 1
                    /\ SubSeq(log', 1, Len(log)) = log
                    /\ log'[Len(log')].op \in {"kill", "remove_container"} ]_vars

\* C31's case: both images were built, both containers were created, and
\* the caller's stop() has killed and removed both and has returned.
C31_Witness ==
  /\ images = {"devappserver_image", "app_image"}
  /\ BuiltImages = images
  /\ start_result = "returned"
  /\ stop_result = "returned"
  /\ teardown = 1
  /\ pc = "idle"
  /\ Len(rt) = 2
  /\ \A id \in DOMAIN rt : rt[id] = "removed"
  /\ \E i \in DOMAIN log : log[i].op = "remove_container" /\ log[i].ok

\* ------------------------------------------------------------------ Container

\* What the sandbox owns: no method of Container touches it.
sandbox_vars ==
  << run_devappserver, image_name, images, log, devappserver_container,
     app_container, pc, pending, attempt, sleeps, stop_ctx, stop_idx, cont_id,
     teardown, orig_exc, cleanup_done, start_result, start_exc, stop_result,
     stop_exc, stops, stopped_clean, sig_in_create , ivars >>

\* The positions of Container.__init__ inside its try block.
CtorTryPcs ==
  {"set_handler", "create", "create_ret", "restore", "check", "host"}

\* The positions at which __init__'s create_container call is outstanding.
CtorCreatePcs ==
  {"create", "create_ret"}

\* A remove() that kept the id of the container it has removed.
IdAfterRemoveKept(id) ==
  id

\* remove(): self.__container_id = None once remove_container returned.
IdAfterRemove(id) ==
  None

\* The handler __init__ installs: signal.signal(signal.SIGINT, sig_handler).
InstalledHandler ==
  "sig_handler"

\* __init__ ends by raising e: no reference to the object reaches the caller.
CtorRaise(e) ==
  /\ cpc' = "idle"
  /\ c_result' = "raised"
  /\ c_exc' = e

\* Container(dclient, **docker_kwargs) is called: self.__container_id = None.
CtorBegin ==
  /\ cpc = "idle"
  /\ constructions < MaxConstructions
  /\ constructions' = constructions + 1
  /\ container_id' = None
  /\ c_cid' = None
  /\ c_result' = "active"
  /\ c_exc' = NoExc
  /\ c_sig_in_create' = FALSE
  /\ c_remove_issued' = FALSE
  /\ cpc' = "set_handler"
  /\ c_exiting0' = EXITING
  /\ c_sigints0' = sigints
  /\ UNCHANGED << sandbox_vars, rt, oob, sigints, EXITING, handler, prev,
                  m_issued, m_exc, m_ret,
                  threads >>

\* prev = signal.signal(signal.SIGINT, sig_handler)
CtorSetHandler ==
  /\ cpc = "set_handler"
  /\ prev' = handler
  /\ handler' = InstalledHandler
  /\ cpc' = "create"
  /\ UNCHANGED << sandbox_vars, rt, oob, sigints, EXITING, container_id,
                  c_cid, c_result, c_exc, c_sig_in_create, c_remove_issued,
                  constructions, m_issued, m_exc, m_ret,
                  threads, c_exiting0, c_sigints0 >>

\* self.__dclient.create_container(**docker_kwargs) is sent: the daemon
\* allocates the container, or the call raises, which no clause of
\* __init__ catches.
CtorCreate ==
  /\ cpc = "create"
  /\ \E ok \in BOOLEAN :
       IF ok
         THEN /\ rt' = Append(rt, "created")
              /\ c_cid' = Len(rt) + 1
              /\ cpc' = "create_ret"
              /\ UNCHANGED << c_result, c_exc >>
         ELSE /\ CtorRaise("CreateError")
              /\ UNCHANGED << rt, c_cid >>
  /\ UNCHANGED << sandbox_vars, oob, sigints, EXITING, handler, prev,
                  container_id, c_sig_in_create, c_remove_issued,
                  constructions, m_issued, m_exc, m_ret,
                  threads, c_exiting0, c_sigints0 >>

\* The call returns: self.__container_id = (...).get('Id')
CtorCreateRet ==
  /\ cpc = "create_ret"
  /\ container_id' = c_cid
  /\ cpc' = "restore"
  /\ UNCHANGED << sandbox_vars, rt, oob, sigints, EXITING, handler, prev,
                  c_cid, c_result, c_exc, c_sig_in_create, c_remove_issued,
                  constructions, m_issued, m_exc, m_ret,
                  threads, c_exiting0, c_sigints0 >>

\* signal.signal(signal.SIGINT, prev)
CtorRestore ==
  /\ cpc = "restore"
  /\ handler' = prev
  /\ cpc' = "check"
  /\ UNCHANGED << sandbox_vars, rt, oob, sigints, EXITING, prev,
                  container_id, c_cid, c_result, c_exc, c_sig_in_create,
                  c_remove_issued, constructions, m_issued, m_exc, m_ret,
                  threads, c_exiting0, c_sigints0 >>

\* A check that lets the constructor go on whatever the flag says.
AfterCheckIgnored(exiting) ==
  "host"

\* Where `if _EXITING: raise KeyboardInterrupt` sends the constructor: to
\* its except clause when the flag is set, on to self.host otherwise.
AfterCheck(exiting) ==
  IF exiting THEN "except" ELSE "host"

\* if _EXITING: raise KeyboardInterrupt
CtorCheck ==
  /\ cpc = "check"
  /\ cpc' = AfterCheck(EXITING)
  /\ UNCHANGED << sandbox_vars, rt, oob, sigints, EXITING, handler, prev,
                  container_id, c_cid, c_result, c_exc, c_sig_in_create,
                  c_remove_issued, constructions, m_issued, m_exc, m_ret,
                  threads, c_exiting0, c_sigints0 >>

\* self.host = ...: the constructor returns.
CtorHost ==
  /\ cpc = "host"
  /\ cpc' = "idle"
  /\ c_result' = "returned"
  /\ UNCHANGED << sandbox_vars, rt, oob, sigints, EXITING, handler, prev,
                  container_id, c_cid, c_exc, c_sig_in_create,
                  c_remove_issued, constructions, m_issued, m_exc, m_ret,
                  threads, c_exiting0, c_sigints0 >>

\* except KeyboardInterrupt: self.remove(); raise
\* remove() issues remove_container when an id is stored and clears the id
\* when the call returned; an error of the call leaves remove() and replaces
\* the KeyboardInterrupt.
CtorExcept ==
  /\ cpc = "except"
  /\ IF container_id # None
       THEN \E ok \in BOOLEAN :
              LET success == ok /\ Allocated(container_id)
                                /\ rt[container_id] # "running"
              IN  /\ c_remove_issued' = TRUE
                  /\ IF success
                       THEN /\ rt' = [rt EXCEPT ![container_id] = "removed"]
                            /\ container_id' = IdAfterRemove(container_id)
                            /\ CtorRaise(KeyboardInterrupt)
                       ELSE /\ CtorRaise("RemoveError")
                            /\ UNCHANGED << rt, container_id >>
       ELSE /\ CtorRaise(KeyboardInterrupt)
            /\ UNCHANGED << rt, container_id, c_remove_issued >>
  /\ UNCHANGED << sandbox_vars, oob, sigints, EXITING, handler, prev, c_cid,
                  c_sig_in_create, constructions, m_issued, m_exc, m_ret,
                  threads, c_exiting0, c_sigints0 >>

\* SIGINT is delivered to the process. Under sig_handler it is only
\* recorded (_EXITING = True). Under Python's own handler KeyboardInterrupt is
\* raised where the thread stands: inside __init__'s try block it is caught
\* by the except clause, inside that clause it leaves the constructor.
CtorSigInt ==
  /\ sigints < MaxSigints
  /\ sigints' = sigints + 1
  /\ IF handler = "sig_handler"
       THEN /\ EXITING' = TRUE
            /\ c_sig_in_create' = (c_sig_in_create \/ cpc \in CtorCreatePcs)
            /\ UNCHANGED << cpc, c_result, c_exc >>
       ELSE /\ cpc \in CtorTryPcs \cup {"except"}
            /\ IF cpc = "except"
                 THEN CtorRaise(KeyboardInterrupt)
                 ELSE /\ cpc' = "except"
                      /\ UNCHANGED << c_result, c_exc >>
            /\ UNCHANGED << EXITING, c_sig_in_create >>
  /\ UNCHANGED << sandbox_vars, rt, oob, handler, prev, container_id,
                  c_cid, c_remove_issued, constructions, m_issued, m_exc, m_ret,
                  threads, c_exiting0, c_sigints0 >>

\* kill() on the Container the last constructor call returned.
Kill ==
  /\ cpc = "idle"
  /\ c_result = "returned"
  /\ IF container_id # None
       THEN \E ok \in BOOLEAN :
              LET success == ok /\ Allocated(container_id)
              IN  /\ m_issued' = << Call("kill", "container", container_id,
                                      None, success) >>
                  /\ rt' = IF success
                             THEN [rt EXCEPT ![container_id] = "exited"]
                             ELSE rt
                  /\ m_exc' = IF success THEN NoExc ELSE "KillError"
       ELSE /\ m_exc' = NoExc
            /\ m_issued' = << >>
            /\ UNCHANGED rt
  /\ UNCHANGED << sandbox_vars, oob, sigints, EXITING, handler, prev,
                  container_id, cpc, c_cid, c_result, c_exc, c_sig_in_create,
                  c_remove_issued, constructions, threads,
                  c_exiting0, c_sigints0 >>
  /\ m_ret' = "None"

\* remove() on that Container.
Remove ==
  /\ cpc = "idle"
  /\ c_result = "returned"
  /\ IF container_id # None
       THEN \E ok \in BOOLEAN :
              LET success == ok /\ Allocated(container_id)
                                /\ rt[container_id] # "running"
              IN  /\ m_issued' = << Call("remove_container", "container",
                                      container_id, None, success) >>
                  /\ rt' = IF success
                             THEN [rt EXCEPT ![container_id] = "removed"]
                             ELSE rt
                  /\ container_id' = IF success THEN IdAfterRemove(container_id)
                                     ELSE container_id
                  /\ m_exc' = IF success THEN NoExc ELSE "RemoveError"
       ELSE /\ m_exc' = NoExc
            /\ m_issued' = << >>
            /\ UNCHANGED << rt, container_id >>
  /\ UNCHANGED << sandbox_vars, oob, sigints, EXITING, handler, prev,
                  cpc, c_cid, c_result, c_exc, c_sig_in_create,
                  c_remove_issued, constructions, threads,
                  c_exiting0, c_sigints0 >>
  /\ m_ret' = "None"

\* start(**start_kwargs) on that Container: dclient.start is called with
\* whatever id is stored, None included.
ContainerStart ==
  /\ cpc = "idle"
  /\ c_result = "returned"
  /\ \E ok \in BOOLEAN :
       LET success == /\ ok
                      /\ container_id \in DOMAIN rt
                      /\ rt[container_id] \in {"created", "exited"}
       IN  /\ m_issued' = << Call("start", "container", container_id,
                                  None, success) >>
           /\ rt' = IF success
                      THEN [rt EXCEPT ![container_id] = "running"]
                      ELSE rt
           /\ m_exc' = IF success THEN NoExc ELSE "StartError"
  /\ UNCHANGED << sandbox_vars, oob, sigints, EXITING, handler, prev,
                  container_id, cpc, c_cid, c_result, c_exc, c_sig_in_create,
                  c_remove_issued, constructions, threads,
                  c_exiting0, c_sigints0 >>
  /\ m_ret' = "None"

\* return res['State']['Running'], False on KeyError.
RunningOf(has_flag, running) ==
  IF ~has_flag THEN "False" ELSE IF running THEN "True" ELSE "False"

\* is_running() on that Container: dclient.inspect_container is called with
\* whatever id is stored, None included; the daemon has no container for
\* None, so that call raises. An answer may lack the running flag.
IsRunning ==
  /\ cpc = "idle"
  /\ c_result = "returned"
  /\ \E ok \in BOOLEAN, has_flag \in BOOLEAN :
       LET success == ok /\ Allocated(container_id)
       IN  /\ m_issued' = << Call("inspect_container", "container",
                                  container_id, None, success) >>
           /\ m_exc' = IF success THEN NoExc ELSE "InspectError"
           /\ m_ret' = IF success
                         THEN RunningOf(has_flag, rt[container_id] = "running")
                         ELSE "None"
  /\ UNCHANGED << sandbox_vars, rt, oob, sigints, EXITING, handler, prev,
                  container_id, cpc, c_cid, c_result, c_exc, c_sig_in_create,
                  c_remove_issued, constructions, threads,
                  c_exiting0, c_sigints0 >>

\* The entry of a dclient.logs call: whether it streams, how many lines the
\* container had buffered, and how many of them stream_logs itself had
\* logged when it returned.
LogsCall(id, stream, buffered, relayed, ok) ==
  [op |-> "logs", name |-> "container", id |-> id, nm |-> None, ok |-> ok,
   stop |-> teardown, stream |-> stream, buffered |-> buffered,
   relayed |-> relayed]

\* A stream_logs that starts its thread whatever stream is.
StartsThreadAlways(stream) ==
  TRUE

\* if stream: threading.Thread(target=log_printer).start()
StartsThread(stream) ==
  stream

\* else: log_printer() runs in the caller and logs every line of the buffer.
InlineRelayed(stream, buffered) ==
  IF stream THEN 0 ELSE buffered

\* stream_logs(stream) on that Container: dclient.logs is called by the
\* caller; then the lines are logged by a new thread (stream) or by the
\* caller itself (not stream), and stream_logs returns.
StreamLogs ==
  /\ cpc = "idle"
  /\ c_result = "returned"
  /\ \E stream \in BOOLEAN, ok \in BOOLEAN, buffered \in 0..MaxLines :
       LET success == ok /\ Allocated(container_id)
           spawn == success /\ StartsThread(stream)
       IN  /\ spawn => Len(threads) < MaxThreads
           /\ m_issued' = << LogsCall(container_id, stream, buffered,
                                      IF success
                                        THEN InlineRelayed(stream, buffered)
                                        ELSE 0,
                                      success) >>
           /\ m_exc' = IF success THEN NoExc ELSE "LogsError"
           /\ threads' = IF spawn
                           THEN Append(threads, [state |-> "running",
                                                 lines |-> 0])
                           ELSE threads
  /\ m_ret' = "None"
  /\ UNCHANGED << sandbox_vars, rt, oob, sigints, EXITING, handler, prev,
                  container_id, cpc, c_cid, c_result, c_exc, c_sig_in_create,
                  c_remove_issued, constructions, c_exiting0,
                  c_sigints0 >>

\* What a step of a log_printer thread leaves alone: everything but the
\* thread itself.
relay_frame ==
  << sandbox_vars, rt, oob, sigints, EXITING, handler, prev, container_id,
     cpc, c_cid, c_result, c_exc, c_sig_in_create, c_remove_issued,
     constructions, m_issued, m_exc, m_ret, c_exiting0, c_sigints0 >>

\* A log_printer thread takes one line from the stream and logs it.
RelayLine ==
  /\ \E t \in DOMAIN threads :
       /\ threads[t].state = "running"
       /\ threads[t].lines < MaxLines
       /\ threads' = [threads EXCEPT ![t].lines = @ + 1]
  /\ UNCHANGED relay_frame

\* The log stream ends: the for loop and the thread end.
RelayEnd ==
  /\ \E t \in DOMAIN threads :
       /\ threads[t].state = "running"
       /\ threads' = [threads EXCEPT ![t].state = "ended"]
  /\ UNCHANGED relay_frame

\* Reading the stream raises inside the thread, which dies with it.
RelayFail ==
  /\ \E t \in DOMAIN threads :
       /\ threads[t].state = "running"
       /\ threads' = [threads EXCEPT ![t].state = "failed"]
  /\ UNCHANGED relay_frame

NextContainer ==
  \/ CtorBegin
  \/ CtorSetHandler
  \/ CtorCreate
  \/ CtorCreateRet
  \/ CtorRestore
  \/ CtorCheck
  \/ CtorHost
  \/ CtorExcept
  \/ CtorSigInt
  \/ Kill
  \/ Remove
  \/ ContainerStart
  \/ IsRunning
  \/ OutOfBand

\* A process that only constructs and uses Containers: the sandbox of the
\* initial state is never started, so its configuration is fixed.
InitContainer ==
  /\ Init
  /\ run_devappserver
  /\ image_name = "None"

SpecContainer ==
  InitContainer /\ [][NextContainer]_vars

\* A process that constructs Containers and reads their logs, with no
\* interrupt and nobody else on the runtime.
NextLogs ==
  \/ CtorBegin
  \/ CtorSetHandler
  \/ CtorCreate
  \/ CtorCreateRet
  \/ CtorRestore
  \/ CtorCheck
  \/ CtorHost
  \/ Kill
  \/ Remove
  \/ ContainerStart
  \/ StreamLogs
  \/ RelayLine
  \/ RelayEnd
  \/ RelayFail

SpecLogs ==
  InitContainer /\ [][NextLogs]_vars

\* -------------------------------------------------------- claims on Container

\* A constructor call has ended during whose create_container call a SIGINT
\* was delivered, and the call had returned a container.
InterruptedCreateEnded ==
  /\ cpc = "idle"
  /\ c_result # "active"
  /\ c_sig_in_create
  /\ c_cid # None

C19_KillOfExistingContainerRaisesNothing ==
  ( /\ m_issued # << >>
    /\ m_issued[1].op = "kill"
    /\ Allocated(m_issued[1].id)
    /\ oob = 0
    /\ sigints = 0 )
    => m_exc = NoExc

\* C20: on a Container that holds no id, each of kill(), remove() and start()
\* is a no-op: the method issues no call to the docker client, raises nothing
\* and leaves the handle and the runtime as they were.
C20_NoIdMethodsAreNoOps ==
  [][ ( /\ container_id = None
        /\ c_result = "returned"
        /\ cpc = "idle"
        /\ cpc' = "idle"
        /\ oob' = oob )
      => /\ m_issued' = << >>
         /\ m_exc' = NoExc
         /\ container_id' = None
         /\ rt' = rt ]_vars

\* C21: kill() on a Container that holds an id whose remote container is
\* already stopped or no longer exists returns normally: the error the
\* daemon answers with is swallowed.
C21_KillOfDeadContainerReturns ==
  ( /\ m_issued # << >>
    /\ m_issued[1].op = "kill"
    /\ m_issued[1].id \in DOMAIN rt
    /\ rt[m_issued[1].id] \in {"exited", "removed"}
    /\ sigints = 0 )
    => m_exc = NoExc

\* C22: is_running() on a Container that holds no id returns False and
\* raises nothing.
C22_IsRunningFalseWithoutId ==
  ( /\ m_issued # << >>
    /\ m_issued[1].op = "inspect_container"
    /\ m_issued[1].id = None )
    => (m_exc = NoExc /\ m_ret = "False")

\* C23: after Container.__init__ has ended in any way (success, recorded
\* interrupt, or an error raised by create_container), the process's SIGINT
\* handler is again the one installed before the constructor started.
\* Stated for the first construction of the process, before which Python's
\* default handler is installed.
C23_HandlerRestoredAfterInit ==
  ( /\ constructions = 1
    /\ cpc = "idle"
    /\ c_result \in {"returned", "raised"} )
    => handler = "default"

\* The last call was a stream_logs, and this step is that call.
StreamLogsStep ==
  /\ m_issued' # << >>
  /\ m_issued'[1].op = "logs"
  /\ (m_issued' # m_issued \/ Len(threads') # Len(threads))

\* C25: stream_logs(stream=True) returns while its relay thread, started by
\* that call, is still running and has relayed nothing yet; the thread then
\* runs until the stream ends (or it fails), and no step of it changes the
\* handle, the runtime or the sandbox. stream_logs(stream=False) has logged
\* every buffered line when it returns, and starts no thread.
C25_StreamLogsRelay ==
  [][ /\ StreamLogsStep
          => LET c == m_issued'[1]
             IN  /\ (c.ok /\ c.stream)
                      => /\ Len(threads') = Len(threads) + 1
                         /\ threads'[Len(threads')] =
                              [state |-> "running", lines |-> 0]
                         /\ c.relayed = 0
                         /\ m_exc' = NoExc
                         /\ cpc' = "idle"
                 /\ (c.ok /\ ~c.stream)
                      => /\ threads' = threads
                         /\ c.relayed = c.buffered
                         /\ m_exc' = NoExc
                 /\ ~c.ok => threads' = threads
                 /\ \A t \in DOMAIN threads : threads'[t] = threads[t]
      /\ (threads' # threads /\ Len(threads') = Len(threads))
          => /\ UNCHANGED relay_frame
             /\ \A t \in DOMAIN threads :
                  threads'[t] # threads[t] => threads[t].state = "running" ]_vars

\* C25's case: a relay thread has relayed output and ended after its
\* stream_logs(stream=True) returned, and a later stream_logs(stream=False)
\* has logged a buffer of several lines.
C25_Witness ==
  /\ Len(threads) >= 1
  /\ threads[1].state = "ended"
  /\ threads[1].lines >= 1
  /\ m_issued # << >>
  /\ m_issued[1].op = "logs"
  /\ m_issued[1].ok
  /\ ~m_issued[1].stream
  /\ m_issued[1].relayed = MaxLines

\* The last constructor call began with _EXITING already set, has ended,
\* and no SIGINT was delivered since it began.
LaterConstructionEnded ==
  /\ c_exiting0
  /\ sigints = c_sigints0
  /\ cpc = "idle"
  /\ c_result # "active"

\* C30 as stated: once _EXITING is set, every later construction with no
\* new interrupt creates its container, removes it again and raises
\* KeyboardInterrupt. Stated for runs without out-of-band mutation.
C30_LaterConstructionsAllInterrupted ==
  (LaterConstructionEnded /\ oob = 0)
    => /\ c_result = "raised"
       /\ c_exc = KeyboardInterrupt
       /\ c_cid # None
       /\ rt[c_cid] = "removed"

\* C30 amended: _EXITING is still set in every state after a constructor
\* call began with it set; such a call, with no new interrupt, never returns
\* an object: it raises KeyboardInterrupt after its container was created
\* and removed, or create_container's error with no container created, or
\* remove_container's error with the id still stored.
C30_LaterConstructionsNeverReturn ==
  /\ c_exiting0 => EXITING
  /\ LaterConstructionEnded
       => /\ c_result = "raised"
          /\ c_exc \in {KeyboardInterrupt, "CreateError", "RemoveError"}
          /\ c_exc = KeyboardInterrupt
               => /\ c_cid # None
                  /\ rt[c_cid] = "removed"
                  /\ c_remove_issued
                  /\ container_id = None
          /\ c_exc = "CreateError"
               => /\ c_cid = None
                  /\ container_id = None
                  /\ ~c_remove_issued
          /\ c_exc = "RemoveError"
               => /\ c_cid # None
                  /\ c_remove_issued
                  /\ container_id = c_cid

\* A second construction, begun after the first one recorded an interrupt,
\* has created and removed its container and raised KeyboardInterrupt.
C30_Witness ==
  /\ LaterConstructionEnded
  /\ constructions = 2
  /\ oob = 0
  /\ c_exc = KeyboardInterrupt
  /\ c_remove_issued
  /\ c_cid # None
  /\ rt[c_cid] = "removed"

====
